---- MODULE Spec2Model ----
(***************************************************************************)
(* Model of the secretannotator controller of cloud-credential-operator:   *)
(* Reconcile fetches the cloud credential secret, validates it, probes the *)
(* cloud for the mint / passthrough capabilities and records the verdict   *)
(* in the secret's annotation map.                                         *)
(*                                                                         *)
(* State: the secret as stored in the cluster, the current behaviour of    *)
(* the collaborators Reconcile calls (API server, infrastructure lookup,   *)
(* client builder, the two probes), and a record of the most recent        *)
(* Reconcile invocation (its calls, in order, and its returned error).     *)
(* The watch set up by add() filters the notifications about secrets and   *)
(* puts a request on the controller's work queue for each admitted one;    *)
(* Reconcile runs for a queued request.                                    *)
(***************************************************************************)
EXTENDS Integers, Sequences, FiniteSets, TLC

VARIABLES exists, secret, world, last, completed, queue, evt, prev, frozen

vars == <<exists, secret, world, last, completed, queue, evt, prev, frozen>>

----------------------------------------------------------------------------
(* Bounds of the model *)

\* longest credential value (a byte string) the installer stores in a field
MaxKeyLen == 1

\* number of annotation keys other than AnnotationKey the secret may carry
MaxOther == 1

----------------------------------------------------------------------------
(* Constants of secretannotator_controller.go *)

CloudCredSecretName == "aws-creds"
CloudCredSecretNamespace == "kube-system"

AnnotationKey == "cloudcredential.openshift.io/mode"
MintAnnotation == "mint"
PassthroughAnnotation == "passthrough"
InsufficientAnnotation == "insufficient"

AwsAccessKeyName == "aws_access_key_id"
AwsSecretAccessKeyName == "aws_secret_access_key"

Modes == {MintAnnotation, PassthroughAnnotation, InsufficientAnnotation}

----------------------------------------------------------------------------
(* The secret: corev1.Secret reduced to the parts Reconcile reads or       *)
(* writes.  data is secret.Data, a map from field name to byte string;     *)
(* annNil says that the annotation map is nil; ann is the annotation map.  *)

DataKeys == {AwsAccessKeyName, AwsSecretAccessKeyName}

\* byte strings of length 0..MaxKeyLen (the content of a credential is opaque
\* to the controller; only its presence and its length are told apart)
Bytes == UNION {[1..n -> {0}] : n \in 0..MaxKeyLen}

OtherKeyNames == <<"example.com/a", "example.com/b", "example.com/c">>

OtherKeys == {OtherKeyNames[i] : i \in 1..MaxOther}

EmptyMap == [k \in {} |-> ""]

DataMaps == UNION {[D -> Bytes] : D \in SUBSET DataKeys}

\* annotation maps an installer may give the secret: none of them holds the
\* mode key, which only Reconcile writes
OtherMaps == UNION {[D -> {"x"}] : D \in SUBSET OtherKeys}

MakeSecret(d, a) ==
    [data |-> d, annNil |-> (a = EmptyMap), ann |-> a]

NoSecret == MakeSecret(EmptyMap, EmptyMap)

\* secret.GetAnnotations(), with the nil map replaced by an empty one
GetAnnotations(s) == IF s.annNil THEN EmptyMap ELSE s.ann

----------------------------------------------------------------------------
(* The collaborators.  Each field is the answer the collaborator gives     *)
(* when it is called: get/infra/build/update succeed or fail, a probe      *)
(* answers true, false or an error.                                        *)

Answers(f) ==
    IF f \in {"mint", "pass"} THEN {"true", "false", "err"} ELSE {"ok", "err"}

Worlds ==
    [get : Answers("get"), infra : Answers("infra"), build : Answers("build"),
     mint : Answers("mint"), pass : Answers("pass"), update : Answers("update")]

Call(op, out, arg) == [op |-> op, out |-> out, arg |-> arg]

\* what an invocation leaves behind: the calls it made, the error it
\* returned ("nil" for none) and the object as it is stored afterwards
Outcome(calls, err, stored) == [calls |-> calls, err |-> err, stored |-> stored]

----------------------------------------------------------------------------
(* updateSecretAnnotations: set the mode key in the annotation map of the  *)
(* fetched object (creating the map if it is nil) and send the object to   *)
(* the API server with r.Update.  The result is the Update call, the error *)
(* Update returned and the object as stored after the call.                *)

\* variant: the map created for a nil annotation map is never attached to
\* the object, so an object without annotations is sent back unannotated
SetAnnotationsNilLost(s, value) ==
    IF s.annNil THEN s
    ELSE [s EXCEPT !.ann = [k \in DOMAIN s.ann \cup {AnnotationKey} |->
                               IF k = AnnotationKey THEN value ELSE s.ann[k]]]

\* variant: the annotation map is replaced by one that holds the mode only
SetAnnotationsFresh(s, value) ==
    [s EXCEPT !.annNil = FALSE, !.ann = [k \in {AnnotationKey} |-> value]]

SetAnnotations(s, value) ==
    LET secretAnnotations == GetAnnotations(s)
    IN  [s EXCEPT !.annNil = FALSE,
                  !.ann = [k \in DOMAIN secretAnnotations \cup {AnnotationKey} |->
                              IF k = AnnotationKey THEN value ELSE secretAnnotations[k]]]

updateSecretAnnotations(s, value, w) ==
    IF w.update = "ok"
    THEN [call |-> Call("Update", "ok", value), err |-> "nil",
          stored |-> SetAnnotations(s, value)]
    ELSE [call |-> Call("Update", "err", value), err |-> "update", stored |-> s]

\* variant: the error of the final update is dropped
ReturnUpdateDropsErr(s, value, w, calls) ==
    LET u == updateSecretAnnotations(s, value, w)
    IN  Outcome(Append(calls, u.call), "nil", u.stored)

\* variant: the write is skipped when the annotation already has the value
ReturnUpdateSkipsSame(s, value, w, calls) ==
    IF AnnotationKey \in DOMAIN s.ann /\ s.ann[AnnotationKey] = value
    THEN Outcome(calls, "nil", s)
    ELSE LET u == updateSecretAnnotations(s, value, w)
         IN  Outcome(Append(calls, u.call), u.err, u.stored)

\* `return r.updateSecretAnnotations(secret, value)` after the calls made so far
ReturnUpdate(s, value, w, calls) ==
    LET u == updateSecretAnnotations(s, value, w)
    IN  Outcome(Append(calls, u.call), u.err, u.stored)

\* variant: when the downgrade fails too, its error is the one returned
UpdateReturnErrPrefersWrite(s, value, w, calls, err) ==
    LET u == updateSecretAnnotations(s, value, w)
    IN  Outcome(Append(calls, u.call), IF u.err # "nil" THEN u.err ELSE err, u.stored)

\* `r.updateSecretAnnotations(secret, value); return fmt.Errorf(...)`: the
\* error of the update is dropped and the probe's error is returned
UpdateReturnErr(s, value, w, calls, err) ==
    LET u == updateSecretAnnotations(s, value, w)
    IN  Outcome(Append(calls, u.call), err, u.stored)

----------------------------------------------------------------------------
(* validateCloudCredsSecret, in the order of its statements *)

\* variant: a passthrough-capable credential is annotated insufficient
CheckPassthroughWrongVerdict(s, w, calls) ==
    LET c == Append(calls, Call("CheckCloudCredPassthrough", w.pass, "-"))
    IN  IF w.pass = "err"
        THEN UpdateReturnErr(s, InsufficientAnnotation, w, c, "pass")
        ELSE ReturnUpdate(s, InsufficientAnnotation, w, c)

\* variant: a credential that can do neither is reported as a failure
CheckPassthroughFalseIsError(s, w, calls) ==
    LET c == Append(calls, Call("CheckCloudCredPassthrough", w.pass, "-"))
    IN  IF w.pass = "true"
        THEN ReturnUpdate(s, PassthroughAnnotation, w, c)
        ELSE UpdateReturnErr(s, InsufficientAnnotation, w, c, "pass")

\* variant: the error of the passthrough probe is not returned
CheckPassthroughErrSwallowed(s, w, calls) ==
    LET c == Append(calls, Call("CheckCloudCredPassthrough", w.pass, "-"))
    IN  IF w.pass = "true"
        THEN ReturnUpdate(s, PassthroughAnnotation, w, c)
        ELSE ReturnUpdate(s, InsufficientAnnotation, w, c)

\* lines 194-208: the passthrough probe and the verdicts that follow it
CheckPassthrough(s, w, calls) ==
    LET c == Append(calls, Call("CheckCloudCredPassthrough", w.pass, "-"))
    IN  IF w.pass = "err"
        THEN UpdateReturnErr(s, InsufficientAnnotation, w, c, "pass")
        ELSE IF w.pass = "true"
        THEN ReturnUpdate(s, PassthroughAnnotation, w, c)
        ELSE ReturnUpdate(s, InsufficientAnnotation, w, c)

\* variant: both probes are run before the verdict is drawn
CheckMintProbesBoth(s, w, calls) ==
    LET c == Append(calls, Call("CheckCloudCredCreation", w.mint, "-"))
        c2 == Append(c, Call("CheckCloudCredPassthrough", w.pass, "-"))
    IN  IF w.mint = "err"
        THEN UpdateReturnErr(s, InsufficientAnnotation, w, c, "mint")
        ELSE IF w.mint = "true"
        THEN ReturnUpdate(s, MintAnnotation, w, c2)
        ELSE CheckPassthrough(s, w, c)

\* variant: a failed mint probe leaves the annotation as it was
CheckMintErrStale(s, w, calls) ==
    LET c == Append(calls, Call("CheckCloudCredCreation", w.mint, "-"))
    IN  IF w.mint = "err"
        THEN Outcome(c, "mint", s)
        ELSE IF w.mint = "true"
        THEN ReturnUpdate(s, MintAnnotation, w, c)
        ELSE CheckPassthrough(s, w, c)

\* variant: after writing mint the function goes on to the passthrough probe
CheckMintFallsThrough(s, w, calls) ==
    LET c == Append(calls, Call("CheckCloudCredCreation", w.mint, "-"))
    IN  IF w.mint = "err"
        THEN UpdateReturnErr(s, InsufficientAnnotation, w, c, "mint")
        ELSE IF w.mint = "true"
        THEN LET o == ReturnUpdate(s, MintAnnotation, w, c)
             IN  CheckPassthrough(o.stored, w, o.calls)
        ELSE CheckPassthrough(s, w, c)

\* lines 182-192: the mint probe; passthrough is probed only when it says no
CheckMint(s, w, calls) ==
    LET c == Append(calls, Call("CheckCloudCredCreation", w.mint, "-"))
    IN  IF w.mint = "err"
        THEN UpdateReturnErr(s, InsufficientAnnotation, w, c, "mint")
        ELSE IF w.mint = "true"
        THEN ReturnUpdate(s, MintAnnotation, w, c)
        ELSE CheckPassthrough(s, w, c)

\* secret.Data[k]: the value of the field, nil (no bytes) when it is missing
Field(s, k) == IF k \in DOMAIN s.data THEN s.data[k] ELSE <<>>

\* credentials.Value built from the two fields: string(accessKey) and
\* string(secretKey) keep the bytes as they are, the empty string included
Creds(s) == [AccessKeyID |-> Field(s, AwsAccessKeyName),
             SecretAccessKey |-> Field(s, AwsSecretAccessKeyName)]

\* variant: a failed lookup is tried once more before giving up
BuildClientRetries(s, w, calls) ==
    LET c1 == Append(calls, Call("LoadInfrastructureName", w.infra, "-"))
        c2 == Append(c1, Call("AWSClientBuilder", w.build, Creds(s)))
    IN  IF w.infra = "err"
        THEN Outcome(Append(c1, Call("LoadInfrastructureName", w.infra, "-")), "infra", s)
        ELSE IF w.build = "err" THEN Outcome(c2, "build", s)
        ELSE CheckMint(s, w, c2)

\* variant: an object already annotated mint is not probed again
BuildClientKeepsMint(s, w, calls) ==
    LET c1 == Append(calls, Call("LoadInfrastructureName", w.infra, "-"))
        c2 == Append(c1, Call("AWSClientBuilder", w.build, Creds(s)))
    IN  IF w.infra = "err" THEN Outcome(c1, "infra", s)
        ELSE IF w.build = "err" THEN Outcome(c2, "build", s)
        ELSE IF AnnotationKey \in DOMAIN s.ann /\ s.ann[AnnotationKey] = MintAnnotation
        THEN ReturnUpdate(s, MintAnnotation, w, c2)
        ELSE CheckMint(s, w, c2)

\* variant: a failed lookup or client construction is treated like a
\* failed probe and downgrades the annotation
BuildClientFailClosed(s, w, calls) ==
    LET c1 == Append(calls, Call("LoadInfrastructureName", w.infra, "-"))
        c2 == Append(c1, Call("AWSClientBuilder", w.build, Creds(s)))
    IN  IF w.infra = "err" THEN UpdateReturnErr(s, InsufficientAnnotation, w, c1, "infra")
        ELSE IF w.build = "err" THEN UpdateReturnErr(s, InsufficientAnnotation, w, c2, "build")
        ELSE CheckMint(s, w, c2)

\* lines 169-180: infrastructure name and cloud client
BuildClient(s, w, calls) ==
    LET c1 == Append(calls, Call("LoadInfrastructureName", w.infra, "-"))
        c2 == Append(c1, Call("AWSClientBuilder", w.build, Creds(s)))
    IN  IF w.infra = "err" THEN Outcome(c1, "infra", s)
        ELSE IF w.build = "err" THEN Outcome(c2, "build", s)
        ELSE CheckMint(s, w, c2)

\* variant: an object that already carries a mode annotation is left alone
validateCached(s, w, calls) ==
    IF AnnotationKey \in DOMAIN s.ann
    THEN Outcome(calls, "nil", s)
    ELSE IF AwsAccessKeyName \notin DOMAIN s.data
    THEN ReturnUpdate(s, InsufficientAnnotation, w, calls)
    ELSE IF AwsSecretAccessKeyName \notin DOMAIN s.data
    THEN ReturnUpdate(s, InsufficientAnnotation, w, calls)
    ELSE BuildClient(s, w, calls)

\* variant: a field with an empty value counts as missing
validateRejectsEmpty(s, w, calls) ==
    IF AwsAccessKeyName \notin DOMAIN s.data \/ AwsSecretAccessKeyName \notin DOMAIN s.data
    THEN ReturnUpdate(s, InsufficientAnnotation, w, calls)
    ELSE IF Len(s.data[AwsAccessKeyName]) = 0 \/ Len(s.data[AwsSecretAccessKeyName]) = 0
    THEN ReturnUpdate(s, InsufficientAnnotation, w, calls)
    ELSE BuildClient(s, w, calls)

\* variant: only the access key id is looked for
validateAccessKeyOnly(s, w, calls) ==
    IF AwsAccessKeyName \notin DOMAIN s.data
    THEN ReturnUpdate(s, InsufficientAnnotation, w, calls)
    ELSE BuildClient(s, w, calls)

\* lines 157-167: both credential fields must be present in secret.Data
validateCloudCredsSecret(s, w, calls) ==
    IF AwsAccessKeyName \notin DOMAIN s.data
    THEN ReturnUpdate(s, InsufficientAnnotation, w, calls)
    ELSE IF AwsSecretAccessKeyName \notin DOMAIN s.data
    THEN ReturnUpdate(s, InsufficientAnnotation, w, calls)
    ELSE BuildClient(s, w, calls)

\* variant: the error of r.Get is logged and the function goes on
ReconcileOutcomeIgnoresGetErr(ex, s, w) ==
    IF ~ex THEN validateCloudCredsSecret(s, w, <<Call("Get", "notfound", "-")>>)
    ELSE IF w.get = "err" THEN validateCloudCredsSecret(s, w, <<Call("Get", "err", "-")>>)
    ELSE validateCloudCredsSecret(s, w, <<Call("Get", "ok", "-")>>)

\* Reconcile: r.Get, then validateCloudCredsSecret; every error is returned
ReconcileOutcome(ex, s, w) ==
    IF ~ex THEN Outcome(<<Call("Get", "notfound", "-")>>, "notfound", s)
    ELSE IF w.get = "err" THEN Outcome(<<Call("Get", "err", "-")>>, "get", s)
    ELSE validateCloudCredsSecret(s, w, <<Call("Get", "ok", "-")>>)

----------------------------------------------------------------------------
(* The watch of add(): notifications about secrets pass the predicate      *)
(* (cloudCredSecretObjectCheck on the object's metadata) and, if admitted, *)
(* put a request for the object on the work queue.                         *)

Namespaces == {CloudCredSecretNamespace, "openshift-cloud-credential-operator"}

Names == {CloudCredSecretName, "other-secret"}

\* metav1.Object reduced to namespace and name
Metas == [namespace : Namespaces, name : Names]

\* the credential object this controller manages
CredMeta == [namespace |-> CloudCredSecretNamespace, name |-> CloudCredSecretName]

Kinds == {"create", "update", "delete"}

\* event.CreateEvent / UpdateEvent / DeleteEvent about the object m; name and
\* namespace of an object never change, so MetaOld and MetaNew agree
Event(kind, m) == [kind |-> kind, Meta |-> m, MetaOld |-> m, MetaNew |-> m]

\* variant: the namespace is not compared
cloudCredSecretObjectCheckNameOnly(m) ==
    IF m.name = CloudCredSecretName THEN TRUE ELSE FALSE

cloudCredSecretObjectCheck(m) ==
    IF m.namespace = CloudCredSecretNamespace /\ m.name = CloudCredSecretName
    THEN TRUE
    ELSE FALSE

\* variant: updates are dropped, so that the controller does not react to
\* its own writes
UpdateFuncDrops(e) == FALSE

UpdateFunc(e) == cloudCredSecretObjectCheck(e.MetaNew)

CreateFunc(e) == cloudCredSecretObjectCheck(e.Meta)

DeleteFunc(e) == cloudCredSecretObjectCheck(e.Meta)

\* predicate.Funcs p of add()
Predicate(e) ==
    IF e.kind = "update" THEN UpdateFunc(e)
    ELSE IF e.kind = "create" THEN CreateFunc(e)
    ELSE DeleteFunc(e)

\* c.Watch(..., &handler.EnqueueRequestForObject{}, p): the work queue after
\* the event e was delivered; the queue holds a request at most once
Watch(e, q) == IF Predicate(e) THEN q \cup {e.Meta} ELSE q

\* the work queue after an invocation for CredMeta returned: the request is
\* done; it is queued again when Reconcile returned an error, and the update
\* notification of a write that changed the object passes the watch
AfterReconcile(q, o, s) ==
    LET done == q \ {CredMeta}
        retry == IF o.err # "nil" THEN done \cup {CredMeta} ELSE done
    IN  IF o.stored # s THEN Watch(Event("update", CredMeta), retry) ELSE retry

\* the record of the latest notification about some secret: the event, the
\* verdict of the predicate and the queue before it
NoEvent == [seen |-> FALSE, e |-> Event("create", CredMeta), admitted |-> FALSE,
            before |-> {}]

Seen(e, q) == [seen |-> TRUE, e |-> e, admitted |-> Predicate(e), before |-> q]

----------------------------------------------------------------------------
(* The record of the most recent invocation.  It is kept until the         *)
(* environment next changes the secret or the collaborators.               *)

NoRun == [ran |-> FALSE, pre |-> NoSecret, preExists |-> FALSE,
          calls |-> <<>>, err |-> "nil"]

Ran(ex, s, o) == [ran |-> TRUE, pre |-> s, preExists |-> ex,
                  calls |-> o.calls, err |-> o.err]

IsUpdate(c) == c.op = "Update"

\* what is kept of the invocation before the most recent one, when no change
\* of the environment lies between the two: the number of its writes
NoPrev == [ran |-> FALSE, writes |-> 0]

Prev(l) == [ran |-> l.ran, writes |-> Len(SelectSeq(l.calls, IsUpdate))]

----------------------------------------------------------------------------
(* Initial state and actions *)

Init ==
    /\ exists = FALSE
    /\ secret = NoSecret
    /\ world \in Worlds
    /\ last = NoRun
    /\ completed = FALSE
    /\ queue = {}
    /\ evt = NoEvent
    /\ prev = NoPrev
    /\ frozen = FALSE

\* one Reconcile invocation for the queued request kube-system/aws-creds
Reconcile ==
    /\ CredMeta \in queue
    /\ LET o == ReconcileOutcome(exists, secret, world)
       IN  /\ secret' = o.stored
           /\ last' = Ran(exists, secret, o)
           /\ completed' = (completed \/ o.err = "nil")
           /\ queue' = AfterReconcile(queue, o, secret)
    /\ prev' = Prev(last)
    /\ evt' = NoEvent
    /\ UNCHANGED <<exists, world, frozen>>

\* the installer creates the secret (watch event: create)
CreateSecret ==
    /\ ~frozen
    /\ ~exists
    /\ \E d \in DataMaps, a \in OtherMaps :
          secret' = MakeSecret(d, a)
    /\ exists' = TRUE
    /\ queue' = Watch(Event("create", CredMeta), queue)
    /\ evt' = Seen(Event("create", CredMeta), queue)
    /\ last' = NoRun
    /\ prev' = NoPrev
    /\ completed' = FALSE
    /\ UNCHANGED <<world, frozen>>

\* the map f without the key k
Without(f, k) == [j \in DOMAIN f \ {k} |-> f[j]]

\* the map f with the key k set to v
With(f, k, v) == [j \in DOMAIN f \cup {k} |-> IF j = k THEN v ELSE f[j]]

\* the secret with the annotation map a; an empty map is stored as none
WithAnnotations(s, a) == [s EXCEPT !.annNil = (a = EmptyMap), !.ann = a]

\* an administrator changes a credential field or one of the other
\* annotations of the secret (watch event: update); the mode annotation is
\* kept.  A change of several keys is a sequence of these steps: it leads to
\* the same object and the same queue.
ChangeSecret ==
    /\ ~frozen
    /\ exists
    /\ \/ \E k \in DOMAIN secret.data :
              secret' = [secret EXCEPT !.data = Without(secret.data, k)]
       \/ \E k \in DataKeys, b \in Bytes :
              /\ k \in DOMAIN secret.data => secret.data[k] # b
              /\ secret' = [secret EXCEPT !.data = With(secret.data, k, b)]
       \/ \E k \in OtherKeys :
              secret' = IF k \in DOMAIN secret.ann
                        THEN WithAnnotations(secret, Without(secret.ann, k))
                        ELSE WithAnnotations(secret, With(secret.ann, k, "x"))
    /\ queue' = Watch(Event("update", CredMeta), queue)
    /\ evt' = Seen(Event("update", CredMeta), queue)
    /\ last' = NoRun
    /\ prev' = NoPrev
    /\ UNCHANGED <<exists, world, completed, frozen>>

\* the secret is deleted (watch event: delete)
DeleteSecret ==
    /\ ~frozen
    /\ exists
    /\ exists' = FALSE
    /\ secret' = NoSecret
    /\ queue' = Watch(Event("delete", CredMeta), queue)
    /\ evt' = Seen(Event("delete", CredMeta), queue)
    /\ last' = NoRun
    /\ prev' = NoPrev
    /\ completed' = FALSE
    /\ UNCHANGED <<world, frozen>>

\* the collaborators change their behaviour: an outage begins or ends, the
\* permissions of the credentials change in the cloud
ChangeWorld ==
    /\ ~frozen
    /\ \E f \in DOMAIN world :
          \E v \in Answers(f) : v # world[f] /\ world' = [world EXCEPT ![f] = v]
    /\ last' = NoRun
    /\ prev' = NoPrev
    /\ evt' = NoEvent
    /\ UNCHANGED <<exists, secret, completed, queue, frozen>>

Next ==
    \/ Reconcile
    \/ CreateSecret
    \/ ChangeSecret
    \/ DeleteSecret
    \/ ChangeWorld

Spec == Init /\ [][Next]_vars

----------------------------------------------------------------------------
(* The watch with the other secrets of the cluster: the source of add() is *)
(* every corev1.Secret, so notifications about secrets other than the      *)
(* credential object reach the predicate too.                              *)

\* a notification about another secret is delivered to the watch
Notify ==
    /\ ~frozen
    /\ \E kind \in Kinds, m \in Metas \ {CredMeta} :
          /\ queue' = Watch(Event(kind, m), queue)
          /\ evt' = Seen(Event(kind, m), queue)
    /\ last' = NoRun
    /\ prev' = NoPrev
    /\ UNCHANGED <<exists, secret, world, completed, frozen>>

\* collaborators that all answer: the credentials can neither mint nor pass
Healthy == [get |-> "ok", infra |-> "ok", build |-> "ok",
            mint |-> "false", pass |-> "false", update |-> "ok"]

InitFilter == Init /\ world = Healthy

NextFilter ==
    \/ Notify
    \/ CreateSecret
    \/ ChangeSecret
    \/ DeleteSecret
    \/ Reconcile

SpecFilter == InitFilter /\ [][NextFilter]_vars

----------------------------------------------------------------------------
(* Retry: the controller runs Reconcile for every queued request, and a    *)
(* request whose Reconcile returned an error is queued again.  Freeze      *)
(* marks the point from which the credential object and the collaborators  *)
(* no longer change and every call succeeds.                               *)

AllCallsSucceed(w) ==
    /\ w.get = "ok" /\ w.infra = "ok" /\ w.build = "ok" /\ w.update = "ok"
    /\ w.mint # "err" /\ w.pass # "err"

Freeze ==
    /\ ~frozen
    /\ exists
    /\ AllCallsSucceed(world)
    /\ frozen' = TRUE
    /\ last' = NoRun
    /\ prev' = NoPrev
    /\ evt' = NoEvent
    /\ UNCHANGED <<exists, secret, world, completed, queue>>

NextRetry ==
    \/ Reconcile
    \/ CreateSecret
    \/ ChangeSecret
    \/ DeleteSecret
    \/ ChangeWorld
    \/ Freeze

SpecRetry == Init /\ [][NextRetry]_vars /\ WF_vars(Reconcile)

----------------------------------------------------------------------------
(* Vocabulary of the properties: what the most recent invocation did *)

\* the mode annotation of an object, "absent" when the key is not in the map
Mode(s) == IF AnnotationKey \in DOMAIN s.ann THEN s.ann[AnnotationKey] ELSE "absent"

Called(op) == \E i \in DOMAIN last.calls : last.calls[i].op = op

Returned(op, out) ==
    \E i \in DOMAIN last.calls : last.calls[i].op = op /\ last.calls[i].out = out

\* the annotation writes of the invocation, in order
Writes == SelectSeq(last.calls, IsUpdate)

FieldMissing(s) ==
    AwsAccessKeyName \notin DOMAIN s.data \/ AwsSecretAccessKeyName \notin DOMAIN s.data

\* the invocation failed before any classification: fetch, infrastructure
\* name or client construction failed
FailedEarly ==
    \/ Returned("Get", "notfound") \/ Returned("Get", "err")
    \/ Returned("LoadInfrastructureName", "err")
    \/ Returned("AWSClientBuilder", "err")

TypeOK ==
    /\ frozen \in BOOLEAN
    /\ queue \subseteq Metas
    /\ evt.seen \in BOOLEAN
    /\ prev.ran \in BOOLEAN
    /\ exists \in BOOLEAN
    /\ world \in Worlds
    /\ completed \in BOOLEAN
    /\ last.ran \in BOOLEAN
    /\ secret.annNil \in BOOLEAN
    /\ DOMAIN secret.data \subseteq DataKeys
    /\ DOMAIN secret.ann \subseteq OtherKeys \cup {AnnotationKey}
    /\ (~exists => secret = NoSecret)

----------------------------------------------------------------------------
(* Properties.  Each is about the state an invocation of Reconcile leaves: *)
(* last is its record, secret the stored object after it returned.         *)

\* the single annotation write of the invocation
TheWrite == Writes[1]

\* C1: when the mint probe answers (true, nil) the invocation issues one
\* annotation write, of mint, and never calls the passthrough probe, whatever
\* that probe would answer; it writes passthrough in no case, and the stored
\* annotation is mint once the write succeeded.
C1_MintStopsProbing ==
    (last.ran /\ Returned("CheckCloudCredCreation", "true")) =>
        /\ Len(Writes) = 1
        /\ TheWrite.arg = MintAnnotation
        /\ ~Called("CheckCloudCredPassthrough")
        /\ (TheWrite.out = "ok" => Mode(secret) = MintAnnotation)
        /\ (last.err = "nil" => Mode(secret) = MintAnnotation)

C1_Witness ==
    /\ last.ran
    /\ Returned("CheckCloudCredCreation", "true")
    /\ world.pass = "true"
    /\ Mode(last.pre) = PassthroughAnnotation
    /\ Mode(secret) = MintAnnotation

\* C2 as stated: when the mint probe fails, the stored annotation is
\* insufficient after Reconcile returned, and Reconcile returned an error.
C2_AsStated ==
    (last.ran /\ Returned("CheckCloudCredCreation", "err")) =>
        /\ Mode(secret) = InsufficientAnnotation
        /\ last.err # "nil"

\* C2 amended: when the mint probe fails, Reconcile returns the probe's
\* error and issues one write of insufficient; the stored annotation is
\* insufficient if that write succeeds, and the object is left as it was
\* (a stale mint or passthrough included) if the write fails.
C2_MintErrorDowngrades ==
    (last.ran /\ Returned("CheckCloudCredCreation", "err")) =>
        /\ last.err = "mint"
        /\ Len(Writes) = 1
        /\ TheWrite.arg = InsufficientAnnotation
        /\ (TheWrite.out = "ok" => Mode(secret) = InsufficientAnnotation)
        /\ (TheWrite.out = "err" => secret = last.pre)

C2_Witness ==
    /\ last.ran
    /\ Returned("CheckCloudCredCreation", "err")
    /\ Mode(last.pre) \in {MintAnnotation, PassthroughAnnotation}
    /\ Mode(secret) = InsufficientAnnotation
    /\ last.err = "mint"

\* the calls Reconcile makes only with both credential fields at hand
NoCloudCalls ==
    /\ ~Called("LoadInfrastructureName")
    /\ ~Called("AWSClientBuilder")
    /\ ~Called("CheckCloudCredCreation")
    /\ ~Called("CheckCloudCredPassthrough")

\* C3 as stated: for a fetched object that lacks a credential field,
\* Reconcile writes insufficient, returns no error and makes no lookup, no
\* client and no probe call.
C3_AsStated ==
    (last.ran /\ Returned("Get", "ok") /\ FieldMissing(last.pre)) =>
        /\ Len(Writes) = 1
        /\ TheWrite.arg = InsufficientAnnotation
        /\ last.err = "nil"
        /\ NoCloudCalls

\* C3 amended: for a fetched object that lacks a credential field, Reconcile
\* issues one write of insufficient and makes no lookup, no client and no
\* probe call; it returns no error if the write succeeds (the stored
\* annotation is then insufficient) and the write's error if it fails.
C3_MissingFieldInsufficient ==
    (last.ran /\ Returned("Get", "ok") /\ FieldMissing(last.pre)) =>
        /\ Len(Writes) = 1
        /\ TheWrite.arg = InsufficientAnnotation
        /\ NoCloudCalls
        /\ (TheWrite.out = "ok" =>
               last.err = "nil" /\ Mode(secret) = InsufficientAnnotation)
        /\ (TheWrite.out = "err" => last.err = "update" /\ secret = last.pre)

C3_Witness ==
    /\ last.ran
    /\ Returned("Get", "ok")
    /\ AwsAccessKeyName \in DOMAIN last.pre.data
    /\ AwsSecretAccessKeyName \notin DOMAIN last.pre.data
    /\ world.mint = "true"
    /\ last.err = "nil"
    /\ Mode(secret) = InsufficientAnnotation

\* C4: an invocation that reaches a verdict (a missing field, or the mint
\* probe answering true or failing, or any answer of the passthrough probe)
\* issues exactly one annotation write; one that fails at the fetch, the
\* infrastructure lookup or the client construction issues none.
C4_OneWritePerVerdict ==
    last.ran =>
        /\ (FailedEarly => Len(Writes) = 0)
        /\ (~FailedEarly => Len(Writes) = 1)
        /\ (~FailedEarly =>
               \/ FieldMissing(last.pre)
               \/ Returned("CheckCloudCredCreation", "true")
               \/ Returned("CheckCloudCredCreation", "err")
               \/ Called("CheckCloudCredPassthrough"))

C4_Witness ==
    /\ last.ran
    /\ Returned("CheckCloudCredCreation", "false")
    /\ Returned("CheckCloudCredPassthrough", "err")
    /\ Len(Writes) = 1

\* C5: once a Reconcile invocation has returned no error for the object, the
\* object's annotation map holds the mode key with one of the three mode
\* values, in that state and in every later state of the object; the key is
\* absent only while no invocation has yet succeeded for it.
C5_ModePresentAfterSuccess ==
    /\ (last.ran /\ last.err = "nil") => completed
    /\ completed =>
          /\ exists
          /\ ~secret.annNil
          /\ AnnotationKey \in DOMAIN secret.ann
          /\ Mode(secret) \in Modes

C5_Witness ==
    /\ last.ran
    /\ last.err = "nil"
    /\ last.pre.annNil
    /\ Mode(secret) = PassthroughAnnotation

\* C6 as stated: when the mint probe answers (false, nil) and the passthrough
\* probe (true, nil), the stored mode is passthrough and Reconcile returns
\* no error.
C6_AsStated ==
    (last.ran /\ Returned("CheckCloudCredCreation", "false")
              /\ Returned("CheckCloudCredPassthrough", "true")) =>
        /\ Mode(secret) = PassthroughAnnotation
        /\ last.err = "nil"

\* C6 amended: when the mint probe answers (false, nil) and the passthrough
\* probe (true, nil), Reconcile issues one write, of passthrough; if the write
\* succeeds the stored mode is passthrough and Reconcile returns no error, if
\* it fails Reconcile returns the write's error and the object is unchanged.
C6_PassthroughVerdict ==
    (last.ran /\ Returned("CheckCloudCredCreation", "false")
              /\ Returned("CheckCloudCredPassthrough", "true")) =>
        /\ Len(Writes) = 1
        /\ TheWrite.arg = PassthroughAnnotation
        /\ (TheWrite.out = "ok" =>
               last.err = "nil" /\ Mode(secret) = PassthroughAnnotation)
        /\ (TheWrite.out = "err" => last.err = "update" /\ secret = last.pre)

C6_Witness ==
    /\ last.ran
    /\ Returned("CheckCloudCredCreation", "false")
    /\ Returned("CheckCloudCredPassthrough", "true")
    /\ Mode(last.pre) = InsufficientAnnotation
    /\ Mode(secret) = PassthroughAnnotation
    /\ last.err = "nil"

\* C7 as stated: when both probes answer (false, nil), the stored mode is
\* insufficient and Reconcile returns no error.
C7_AsStated ==
    (last.ran /\ Returned("CheckCloudCredCreation", "false")
              /\ Returned("CheckCloudCredPassthrough", "false")) =>
        /\ Mode(secret) = InsufficientAnnotation
        /\ last.err = "nil"

\* C7 amended: when both probes answer (false, nil), Reconcile issues one
\* write, of insufficient; if the write succeeds the stored mode is
\* insufficient and Reconcile returns no error, if it fails Reconcile returns
\* the write's error and the object is unchanged.
C7_NeitherIsInsufficient ==
    (last.ran /\ Returned("CheckCloudCredCreation", "false")
              /\ Returned("CheckCloudCredPassthrough", "false")) =>
        /\ Len(Writes) = 1
        /\ TheWrite.arg = InsufficientAnnotation
        /\ (TheWrite.out = "ok" =>
               last.err = "nil" /\ Mode(secret) = InsufficientAnnotation)
        /\ (TheWrite.out = "err" => last.err = "update" /\ secret = last.pre)

C7_Witness ==
    /\ last.ran
    /\ Returned("CheckCloudCredCreation", "false")
    /\ Returned("CheckCloudCredPassthrough", "false")
    /\ Mode(last.pre) = MintAnnotation
    /\ Mode(secret) = InsufficientAnnotation
    /\ last.err = "nil"

\* C8: when the mint probe answers (false, nil) and the passthrough probe
\* fails, the invocation issues one annotation write, of insufficient (stored
\* when the write succeeds), and Reconcile returns the probe's error.
C8_PassthroughErrorDowngrades ==
    (last.ran /\ Returned("CheckCloudCredCreation", "false")
              /\ Returned("CheckCloudCredPassthrough", "err")) =>
        /\ Len(Writes) = 1
        /\ TheWrite.arg = InsufficientAnnotation
        /\ (TheWrite.out = "ok" => Mode(secret) = InsufficientAnnotation)
        /\ last.err = "pass"

C8_Witness ==
    /\ last.ran
    /\ Returned("CheckCloudCredCreation", "false")
    /\ Returned("CheckCloudCredPassthrough", "err")
    /\ Mode(last.pre) = PassthroughAnnotation
    /\ Mode(secret) = InsufficientAnnotation
    /\ last.err = "pass"

\* C9: Reconcile returns no error only if every call it made succeeded (the
\* fetch, the lookup, the client construction, each probe, the write); in
\* particular an invocation whose annotation write failed returns an error.
C9_NoErrorSwallowed ==
    last.ran =>
        /\ (last.err = "nil" =>
               \A i \in DOMAIN last.calls : last.calls[i].out \notin {"err", "notfound"})
        /\ (Returned("Update", "err") => last.err # "nil")

C9_Witness ==
    /\ last.ran
    /\ Returned("CheckCloudCredPassthrough", "true")
    /\ Returned("Update", "err")
    /\ last.err = "update"

\* C10: when the infrastructure lookup or the client construction fails,
\* Reconcile returns an error, issues no annotation write, leaves the stored
\* object exactly as it was and calls neither probe.
C10_EnvironmentErrorWritesNothing ==
    (last.ran /\ (Returned("LoadInfrastructureName", "err")
                  \/ Returned("AWSClientBuilder", "err"))) =>
        /\ last.err \in {"infra", "build"}
        /\ Len(Writes) = 0
        /\ secret = last.pre
        /\ ~Called("CheckCloudCredCreation")
        /\ ~Called("CheckCloudCredPassthrough")

C10_Witness ==
    /\ last.ran
    /\ Returned("AWSClientBuilder", "err")
    /\ Mode(secret) = MintAnnotation
    /\ last.err = "build"

\* C11: when the credential object cannot be fetched (it does not exist, or
\* r.Get fails otherwise) Reconcile returns that error after the fetch alone:
\* no other call, no annotation write, the stored object as it was; and no
\* invocation creates or deletes the object.
C11_FetchFailureTouchesNothing ==
    last.ran =>
        /\ exists = last.preExists
        /\ (~last.preExists => Returned("Get", "notfound"))
        /\ (Returned("Get", "notfound") \/ Returned("Get", "err")) =>
               /\ last.err = (IF last.preExists THEN "get" ELSE "notfound")
               /\ Len(last.calls) = 1
               /\ Len(Writes) = 0
               /\ secret = last.pre

C11_Witness ==
    /\ last.ran
    /\ ~exists
    /\ Returned("Get", "notfound")
    /\ last.err = "notfound"
    /\ secret = NoSecret

\* C12 as stated: of two invocations in succession with nothing changed in
\* between and writes that succeed, the second leaves the mode the first left
\* and each performs exactly one annotation write.
C12_AsStated ==
    (prev.ran /\ last.ran /\ world.update = "ok") =>
        /\ Mode(secret) = Mode(last.pre)
        /\ prev.writes = 1
        /\ Len(Writes) = 1

\* C12 amended: of two invocations in succession with nothing changed in
\* between and writes that succeed, the second leaves the object exactly as
\* the first left it, and both perform the same number of annotation writes:
\* one each when they reach a verdict, none when they fail at the fetch, the
\* infrastructure lookup or the client construction.
C12_Idempotent ==
    (prev.ran /\ last.ran /\ world.update = "ok") =>
        /\ secret = last.pre
        /\ prev.writes = Len(Writes)
        /\ Len(Writes) = (IF FailedEarly THEN 0 ELSE 1)

C12_Witness ==
    /\ prev.ran
    /\ last.ran
    /\ world.update = "ok"
    /\ prev.writes = 1
    /\ Len(Writes) = 1
    /\ Mode(secret) = PassthroughAnnotation

\* C13: for a create, an update and a delete notification alike, the watch
\* admits the notification exactly if namespace and name of the object are
\* those of the credential object; an admitted notification puts the request
\* for the object on the queue, a dropped one leaves the queue as it was, and
\* nothing but requests for the credential object is ever queued.
C13_FilterAdmitsOnlyCredSecret ==
    /\ queue \subseteq {CredMeta}
    /\ evt.seen =>
          /\ evt.admitted <=> (/\ evt.e.MetaNew.namespace = CloudCredSecretNamespace
                               /\ evt.e.MetaNew.name = CloudCredSecretName)
          /\ evt.admitted => queue = evt.before \cup {evt.e.MetaNew}
          /\ ~evt.admitted => queue = evt.before

C13_Witness ==
    /\ evt.seen
    /\ evt.e.kind = "delete"
    /\ evt.e.Meta.name = CloudCredSecretName
    /\ evt.e.Meta.namespace # CloudCredSecretNamespace
    /\ ~evt.admitted
    /\ evt.before = {CredMeta}
    /\ queue = {CredMeta}

\* the mode the probes determine
ProbeMode(w) ==
    IF w.mint = "true" THEN MintAnnotation
    ELSE IF w.pass = "true" THEN PassthroughAnnotation
    ELSE InsufficientAnnotation

Converged == Mode(secret) = ProbeMode(world)

\* C14 as stated: with Reconcile invoked again after every error, from the
\* point on where the object and the probe answers are stable and every call
\* succeeds, the stored annotation eventually equals the mode the probes
\* determine and stays there.
C14_AsStated ==
    []((frozen /\ ~FieldMissing(secret)) => <>[]Converged)

\* C14 amended: the same, provided an invocation is pending at that point
\* (the request is queued: the invocation before returned an error, or an
\* admitted notification has not been handled yet).
C14_ConvergesWhenPending ==
    []((frozen /\ ~FieldMissing(secret) /\ CredMeta \in queue) => <>[]Converged)

C14_Witness ==
    /\ frozen
    /\ last.ran
    /\ Mode(last.pre) = InsufficientAnnotation
    /\ Mode(secret) = MintAnnotation
    /\ queue = {CredMeta}

\* the place of a call in the order of Reconcile
Rank(op) ==
    IF op = "Get" THEN 1
    ELSE IF op = "LoadInfrastructureName" THEN 2
    ELSE IF op = "AWSClientBuilder" THEN 3
    ELSE IF op = "CheckCloudCredCreation" THEN 4
    ELSE IF op = "CheckCloudCredPassthrough" THEN 5
    ELSE 6

Failed(c) == c.out \in {"err", "notfound"}

IsProbe(c) == c.op \in {"CheckCloudCredCreation", "CheckCloudCredPassthrough"}

\* C15: the calls of one invocation follow the order fetch, infrastructure
\* lookup, client construction, mint probe, passthrough probe, write; none is
\* made twice; a call follows a failed one only as the write that follows a
\* failed probe; and the passthrough probe is called exactly if the mint
\* probe answered (false, nil).
C15_StrictOrder ==
    last.ran =>
        /\ Len(last.calls) >= 1
        /\ last.calls[1].op = "Get"
        /\ \A i, j \in DOMAIN last.calls :
              i < j => Rank(last.calls[i].op) < Rank(last.calls[j].op)
        /\ \A i, j \in DOMAIN last.calls :
              (i < j /\ Failed(last.calls[i])) =>
                  /\ IsProbe(last.calls[i])
                  /\ last.calls[j].op = "Update"
        /\ Called("CheckCloudCredPassthrough") <=>
              Returned("CheckCloudCredCreation", "false")

C15_Witness ==
    /\ last.ran
    /\ Len(last.calls) = 6
    /\ Returned("CheckCloudCredPassthrough", "err")
    /\ Returned("Update", "ok")

\* C16: a successful annotation write stores the object that was fetched with
\* the mode key set and nothing else changed: the other annotations and the
\* credential fields are as before, and an object without annotations gets a
\* map that holds the mode key only.
C16_WriteSetsOnlyModeKey ==
    (last.ran /\ Returned("Update", "ok")) =>
        /\ secret.data = last.pre.data
        /\ ~secret.annNil
        /\ DOMAIN secret.ann = DOMAIN GetAnnotations(last.pre) \cup {AnnotationKey}
        /\ \A k \in DOMAIN secret.ann \ {AnnotationKey} : secret.ann[k] = last.pre.ann[k]
        /\ secret.ann[AnnotationKey] = TheWrite.arg

C16_Witness ==
    /\ last.ran
    /\ Returned("Update", "ok")
    /\ DOMAIN last.pre.ann = OtherKeys
    /\ Mode(secret) = MintAnnotation
    /\ DOMAIN secret.data = DataKeys

\* the annotation maps an object may carry: other annotations, with or
\* without a mode already written
AnnotationMaps ==
    OtherMaps \cup {With(a, AnnotationKey, m) : a \in OtherMaps, m \in Modes}

\* C17: every invocation fetches the object anew and, given both fields, a
\* lookup and a client, probes anew; the calls it makes and the error it
\* returns are those of an invocation on the same credential fields and the
\* same answers of the collaborators with any other annotations in place.
C17_Stateless ==
    last.ran =>
        /\ last.calls[1].op = "Get"
        /\ (Returned("AWSClientBuilder", "ok") => Called("CheckCloudCredCreation"))
        /\ \A a \in AnnotationMaps :
              LET o == ReconcileOutcome(last.preExists, WithAnnotations(last.pre, a), world)
              IN  /\ o.calls = last.calls
                  /\ o.err = last.err

C17_Witness ==
    /\ last.ran
    /\ prev.ran
    /\ Mode(last.pre) = MintAnnotation
    /\ Returned("CheckCloudCredCreation", "true")
    /\ Returned("Update", "ok")

\* C18: when a probe fails, Reconcile returns the probe's error whether the
\* write of insufficient succeeded or not; when that write fails, its error
\* is not reported and the stored object, a mint or passthrough annotation
\* included, stays as it was.
C18_ProbeErrorHidesWriteError ==
    /\ (last.ran /\ Returned("CheckCloudCredCreation", "err")) => last.err = "mint"
    /\ (last.ran /\ Returned("CheckCloudCredPassthrough", "err")) => last.err = "pass"
    /\ (last.ran /\ Returned("Update", "err") /\ last.err \in {"mint", "pass"}) =>
           secret = last.pre

C18_Witness ==
    /\ last.ran
    /\ Returned("CheckCloudCredCreation", "err")
    /\ Returned("Update", "err")
    /\ last.err = "mint"
    /\ Mode(secret) = MintAnnotation

\* C19: a write of Reconcile that changes the object is notified, admitted by
\* the watch and queues a further invocation; once the object and the
\* collaborators are stable and every call succeeds, a write that changes
\* nothing queues nothing, and the invocation that follows another one
\* changes nothing: after it the queue is empty.
C19_SelfNotificationQuiesces ==
    /\ (last.ran /\ secret # last.pre) => CredMeta \in queue
    /\ (frozen /\ last.ran /\ secret = last.pre) => queue = {}
    /\ (frozen /\ prev.ran /\ last.ran) => (secret = last.pre /\ queue = {})

C19_Witness ==
    /\ frozen
    /\ prev.ran
    /\ last.ran
    /\ Returned("Update", "ok")
    /\ secret = last.pre
    /\ queue = {}

\* C20: an object fetched with both field keys present is never classified by
\* validation, whatever the values, the empty one included: the
\* infrastructure lookup is called, then the client is built from the two
\* values as they are, then the mint probe is called.
C20_PresenceOnly ==
    (last.ran /\ Returned("Get", "ok") /\ ~FieldMissing(last.pre)) =>
        /\ Called("LoadInfrastructureName")
        /\ Returned("LoadInfrastructureName", "ok") =>
              \E i \in DOMAIN last.calls :
                  /\ last.calls[i].op = "AWSClientBuilder"
                  /\ last.calls[i].arg =
                        [AccessKeyID |-> last.pre.data[AwsAccessKeyName],
                         SecretAccessKey |-> last.pre.data[AwsSecretAccessKeyName]]
        /\ Returned("AWSClientBuilder", "ok") => Called("CheckCloudCredCreation")

C20_Witness ==
    /\ last.ran
    /\ Returned("Get", "ok")
    /\ DOMAIN last.pre.data = DataKeys
    /\ Len(last.pre.data[AwsAccessKeyName]) = 0
    /\ Len(last.pre.data[AwsSecretAccessKeyName]) = 0
    /\ Returned("CheckCloudCredCreation", "true")
    /\ Mode(secret) = MintAnnotation

====
